---- MODULE Spec2Model ----
(***************************************************************************)
(* Model of the Bot-Website documentation stack:                           *)
(*   - the frontend DocumentationStore (pinia store) and the fetch         *)
(*     wrappers it awaits,                                                 *)
(*   - the documentation server's route handlers,                          *)
(*   - the deploy listener (amqplib consumer callback),                    *)
(*   - the middleware in front of the deployment endpoint.                 *)
(* JavaScript runs each synchronous stretch of code to completion, so one  *)
(* action is one such stretch: the part of an async store action up to its *)
(* await ("call"), its continuation after the await ("resume"), a whole    *)
(* route handler, a whole consumer callback.                               *)
(***************************************************************************)
EXTENDS Integers, Sequences, FiniteSets, Bags, TLC

VARIABLES
    store,      \* the pinia state: docIndex, guideIndex, recommendedDocItems,
                \* recommendedGuideItems, version, language
    pending,    \* bag of store actions suspended at their await (fetch in flight)
    last,       \* the store step that was taken last (what ran, what it returned)
    disk,       \* what the server's file accessors currently return
    res,        \* the response of the route handler that ran last
    platform,   \* process.platform of the server host
    env,        \* process.env.DEPLOYMENT_KEY of the server process
    listening,  \* the consumer of the deploy queue is still being called
    handled,    \* per delivered message: what the consumer callback did with it
    execs       \* number of runs of "bash deploy.sh"

vars == <<store, pending, last, disk, res, platform, env, listening, handled, execs>>
storeVars == <<store, pending, last>>
serverVars == <<disk, res>>
deployVars == <<platform, env, listening, handled, execs>>

(***************************************************************************)
(* Bounds of the model.                                                    *)
(***************************************************************************)
MaxPending == 2
MaxIndexLen == 2
MaxDeliveries == 3

(***************************************************************************)
(* JavaScript values.  A value of a union type carries its typeof.         *)
(***************************************************************************)
False == [typeof |-> "boolean", value |-> FALSE]
Undefined == [typeof |-> "undefined"]
Bool(b) == [typeof |-> "boolean", value |-> b]
Str(s) == [typeof |-> "string", value |-> s]
Num(n) == [typeof |-> "number", value |-> n]
Arr(a) == [typeof |-> "object", value |-> a]

\* !x of a string-or-undefined x: undefined and "" are falsy.
Falsy(x) == x.typeof = "undefined" \/ (x.typeof = "string" /\ x.value = "")

\* Sequences over S of length at most n.
SeqsUpTo(S, n) == UNION {[1..k -> S] : k \in 0..n}

(***************************************************************************)
(* Documentation data.                                                     *)
(***************************************************************************)
Types == {"Doc", "Guide", "Other"}
Categories == {"", "Get_Started"}
ChildLists == {<<>>, <<"Introduction">>, <<"">>, <<"Setup", "Introduction">>}
IndexItems == [category : Categories, children : ChildLists]
Indices == SeqsUpTo(IndexItems, MaxIndexLen)

IndexA == <<[category |-> "Get_Started", children |-> <<"Introduction">>]>>
IndexB == <<[category |-> "Get_Started", children |-> <<"Setup", "Introduction">>]>>
ServerIndices == {<<>>, IndexA, IndexB}

RecommendedItem(i, t) ==
    [id |-> i, title |-> t, anchor |-> "", category |-> "", page |-> "",
     time |-> 1, icon |-> ""]
placeholder == RecommendedItem(1, "None_Available")
ItemsA == <<RecommendedItem(2, "Introduction")>>
ServerItems == {<<>>, ItemsA}


(***************************************************************************)
(* The network, as the frontend sees it: a fetch() is rejected, or         *)
(* resolves to a response with a status and a body; response.json() throws *)
(* on a body that is not JSON.                                             *)
(***************************************************************************)
Rejected == [rejected |-> TRUE, status |-> 0, json |-> FALSE, body |-> <<>>]
Response(status, body) ==
    [rejected |-> FALSE, status |-> status, json |-> TRUE, body |-> body]
NotJson(status) ==
    [rejected |-> FALSE, status |-> status, json |-> FALSE, body |-> <<>>]
Plain(status) == NotJson(status)        \* res.sendStatus: a text body
ResponseOk(response) == response.status \in 200..299

IndexBodies == {[index |-> i] : i \in ServerIndices}
ItemsBodies == {[recommended_items |-> r] : r \in ServerItems}
RefreshBody(di, gi, rd, rg) ==
    [docIndex |-> di, guideIndex |-> gi, recommendedDocItems |-> rd,
     recommendedGuideItems |-> rg]
RefreshBodies ==
    {RefreshBody(IndexA, IndexB, ItemsA, <<placeholder>>),
     RefreshBody(IndexB, <<>>, <<placeholder>>, ItemsA)}
ErrorStatuses == {404, 500}
OutcomesOf(bodies) ==
    {Rejected} \cup {Plain(s) : s \in ErrorStatuses}
        \cup {Response(200, b) : b \in bodies}

\* What a fetch wrapper resolves to: false, or the parsed body.
Data(body) == [typeof |-> "object", value |-> body]

\* A JSON body that is the value null, and the read of a property of a body.
Null == [typeof |-> "null"]
\* How a block of code ends: with a value, or with an exception.
Return(value) == [threw |-> FALSE, value |-> value]
Throw == [threw |-> TRUE, value |-> Undefined]
\* await fetch(...): a rejected fetch throws at the await.
responseJson(outcome) ==
    IF outcome.json THEN Return(Data(outcome.body)) ELSE Throw
\* (await response.json()).file
responseJsonFile(outcome) ==
    IF ~outcome.json \/ outcome.body = Null THEN Throw
    ELSE IF "file" \in DOMAIN outcome.body THEN Return(Str(outcome.body.file))
    ELSE Return(Undefined)
\* catch (error) { console.log(error); return false; }
catchRethrows(attempt) == attempt
catchReturnFalse(attempt) == IF attempt.threw THEN Return(False) ELSE attempt

\* The wrappers: how the promise of each settles (threw means it rejects).
\* The catch is applied to what the try block ends with.
fetchBase(outcome) ==
    catchReturnFalse(
        IF outcome.rejected THEN Throw ELSE Return(Bool(ResponseOk(outcome))))
fetchLogin(outcome) ==
    catchReturnFalse(
        IF outcome.rejected THEN Throw
        ELSE IF ResponseOk(outcome) THEN responseJson(outcome)
        ELSE Return(False))
fetchDocumentationPage(outcome) ==
    catchReturnFalse(
        IF outcome.rejected THEN Throw
        ELSE IF ResponseOk(outcome) THEN responseJsonFile(outcome)
        ELSE IF outcome.status = 404 THEN Return(False)
        ELSE Return(False))
fetchDocumentationPages(outcome) ==
    catchReturnFalse(
        IF outcome.rejected THEN Throw
        ELSE IF ResponseOk(outcome) THEN responseJsonFile(outcome)
        ELSE IF outcome.status = 404 THEN Return(False)
        ELSE Return(False))
fetchDocumentationDefault(outcome) ==
    catchReturnFalse(
        IF outcome.rejected THEN Throw
        ELSE IF ResponseOk(outcome) THEN responseJsonFile(outcome)
        ELSE IF outcome.status = 404 THEN Return(False)
        ELSE Return(False))
fetchDocumentationIndexTry(outcome) ==
    IF outcome.rejected THEN Throw
    ELSE IF ResponseOk(outcome) THEN responseJson(outcome)
    ELSE IF outcome.status = 404 THEN Return(Data([index |-> <<>>]))
    ELSE Return(False)
fetchDocumentationCategoriesFalseOn404(outcome) ==
    catchReturnFalse(
        IF outcome.rejected THEN Throw
        ELSE IF ResponseOk(outcome) THEN responseJson(outcome)
        ELSE Return(False))
fetchDocumentationCategories(outcome) ==
    catchReturnFalse(
        IF outcome.rejected THEN Throw
        ELSE IF ResponseOk(outcome) THEN responseJson(outcome)
        ELSE IF outcome.status = 404 THEN Return(Data([categories |-> <<>>]))
        ELSE Return(False))

\* What the store's await of fetchDocumentationIndex evaluates to.
fetchDocumentationIndexEmptyOnAnyError(outcome) ==
    IF outcome.rejected THEN False
    ELSE IF ResponseOk(outcome)
         THEN (IF outcome.json THEN Data(outcome.body) ELSE False)
    ELSE Data([index |-> <<>>])
fetchDocumentationIndex(outcome) ==
    catchReturnFalse(fetchDocumentationIndexTry(outcome)).value

\* The two wrappers the store imports besides fetchDocumentationIndex follow
\* the documented error taxonomy: a rejected or non-ok fetch resolves to false.
fetchRecommendedItems(outcome) ==
    IF outcome.rejected THEN False
    ELSE IF ResponseOk(outcome)
         THEN (IF outcome.json THEN Data(outcome.body) ELSE False)
    ELSE False

fetchDocumentationRefresh(outcome) ==
    IF outcome.rejected THEN False
    ELSE IF ResponseOk(outcome)
         THEN (IF outcome.json THEN Data(outcome.body) ELSE False)
    ELSE False

(***************************************************************************)
(* The DocumentationStore.                                                 *)
(***************************************************************************)
StoreState(di, gi, rd, rg, v, l) ==
    [docIndex |-> di, guideIndex |-> gi, recommendedDocItems |-> rd,
     recommendedGuideItems |-> rg, version |-> v, language |-> l]
DefaultState == StoreState(<<>>, <<>>, <<>>, <<>>, "v1", "en-US")
Slots == {"docIndex", "guideIndex", "recommendedDocItems", "recommendedGuideItems"}

validVersions == {"v1"}
validLanguages == {"en-US"}
VersionInputs == {"v1", "v2"}
LanguageInputs == {"en-US", "nl-NL"}

\* "Convert input type to Store State Key"
IndexKey(type) == IF type = "Guide" THEN "guideIndex" ELSE "docIndex"
ItemsKey(type) == IF type = "Guide" THEN "recommendedGuideItems" ELSE "recommendedDocItems"
KeyOf(op, type) == IF op = "getIndex" THEN IndexKey(type) ELSE ItemsKey(type)

\* The step a store action took: phase "call" runs up to the await (or to the
\* return, when nothing is awaited), phase "resume" from the await to the return.
Event(op, phase, force, type, awaits, outcome, data, ret) ==
    [op |-> op, phase |-> phase, force |-> force, type |-> type,
     awaits |-> awaits, outcome |-> outcome, data |-> data, ret |-> ret]
NoEvent == Event("none", "call", FALSE, "Doc", FALSE, Undefined, Undefined, Undefined)

\* A suspended action: what it was called with, what it passed to its wrapper.
Call(op, force, type, args) == [op |-> op, force |-> force, type |-> type, args |-> args]
Await(call) ==
    /\ BagCardinality(pending) < MaxPending
    /\ pending' = pending (+) SetToBag({call})
    /\ UNCHANGED <<serverVars, deployVars>>
Settle(call) ==
    /\ BagIn(call, pending)
    /\ pending' = pending (-) SetToBag({call})
    /\ UNCHANGED <<serverVars, deployVars>>

setVersionUnchecked(newVersion) ==
    /\ store' = [store EXCEPT !.version = newVersion]
    /\ last' = Event("setVersion", "call", FALSE, newVersion, FALSE,
                     Undefined, Undefined, Undefined)
    /\ UNCHANGED <<pending, serverVars, deployVars>>
setVersion(newVersion) ==
    /\ store' = IF newVersion \notin validVersions THEN store
                ELSE [store EXCEPT !.version = newVersion]
    /\ last' = Event("setVersion", "call", FALSE, newVersion, FALSE,
                     Undefined, Undefined, Undefined)
    /\ UNCHANGED <<pending, serverVars, deployVars>>

setLanguage(newLanguage) ==
    /\ store' = IF newLanguage \notin validLanguages THEN store
                ELSE [store EXCEPT !.language = newLanguage]
    /\ last' = Event("setLanguage", "call", FALSE, newLanguage, FALSE,
                     Undefined, Undefined, Undefined)
    /\ UNCHANGED <<pending, serverVars, deployVars>>

\* The condition under which the getters go to the network.
MustFetchOnlyWhenEmpty(cached, force) == Len(cached) = 0
MustFetchAlways(cached, force) == TRUE
MustFetch(cached, force) == Len(cached) = 0 \/ force

\* getIndex from its await on: the new state and the value returned.
getIndexSettled(state, type, data) ==
    LET convertedType == IndexKey(type) IN
    IF data.typeof = "boolean"
    THEN [state |-> state, ret |-> state[convertedType]]
    ELSE [state |-> [state EXCEPT ![convertedType] = data.value.index],
          ret |-> data.value.index]

getIndexCall(force, type) ==
    LET convertedType == IndexKey(type) IN
    IF MustFetch(store[convertedType], force)
    THEN /\ Await(Call("getIndex", force, type, <<store.version, store.language, type>>))
         /\ last' = Event("getIndex", "call", force, type, TRUE,
                          Undefined, Undefined, Undefined)
         /\ UNCHANGED store
    ELSE /\ last' = Event("getIndex", "call", force, type, FALSE,
                          Undefined, Undefined, Arr(store[convertedType]))
         /\ UNCHANGED <<store, pending, serverVars, deployVars>>

getIndexResume(call, outcome) ==
    LET data == fetchDocumentationIndex(outcome)
        after == getIndexSettled(store, call.type, data) IN
    /\ call.op = "getIndex"
    /\ Settle(call)
    /\ store' = after.state
    /\ last' = Event("getIndex", "resume", call.force, call.type, FALSE,
                     outcome, data, Arr(after.ret))

getRecommendedItemsSettled(state, type, data) ==
    LET convertedType == ItemsKey(type) IN
    IF data.typeof = "boolean"
    THEN [state |-> state, ret |-> state[convertedType]]
    ELSE [state |-> [state EXCEPT ![convertedType] = data.value.recommended_items],
          ret |-> data.value.recommended_items]

getRecommendedItemsCall(force, type) ==
    LET convertedType == ItemsKey(type) IN
    IF MustFetch(store[convertedType], force)
    THEN /\ Await(Call("getRecommendedItems", force, type, <<store.language, type>>))
         /\ last' = Event("getRecommendedItems", "call", force, type, TRUE,
                          Undefined, Undefined, Undefined)
         /\ UNCHANGED store
    ELSE /\ last' = Event("getRecommendedItems", "call", force, type, FALSE,
                          Undefined, Undefined, Arr(store[convertedType]))
         /\ UNCHANGED <<store, pending, serverVars, deployVars>>

getRecommendedItemsResume(call, outcome) ==
    LET data == fetchRecommendedItems(outcome)
        after == getRecommendedItemsSettled(store, call.type, data) IN
    /\ call.op = "getRecommendedItems"
    /\ Settle(call)
    /\ store' = after.state
    /\ last' = Event("getRecommendedItems", "resume", call.force, call.type, FALSE,
                     outcome, data, Arr(after.ret))

\* refresh from its await on: the new state.
refreshSettledClearsOnFailure(state, data) ==
    IF data.typeof = "boolean" THEN [state EXCEPT !.docIndex = <<>>]
    ELSE [state EXCEPT !.docIndex = data.value.docIndex,
                       !.guideIndex = data.value.guideIndex,
                       !.recommendedDocItems = data.value.recommendedDocItems,
                       !.recommendedGuideItems = data.value.recommendedGuideItems]
refreshSettledSkipsLastSlot(state, data) ==
    IF data.typeof = "boolean" THEN state
    ELSE [state EXCEPT !.docIndex = data.value.docIndex,
                       !.guideIndex = data.value.guideIndex,
                       !.recommendedDocItems = data.value.recommendedDocItems]
refreshSettled(state, data) ==
    IF data.typeof = "boolean" THEN state
    ELSE [state EXCEPT !.docIndex = data.value.docIndex,
                       !.guideIndex = data.value.guideIndex,
                       !.recommendedDocItems = data.value.recommendedDocItems,
                       !.recommendedGuideItems = data.value.recommendedGuideItems]

refreshCall ==
    /\ Await(Call("refresh", TRUE, "Doc", <<store.version, store.language>>))
    /\ last' = Event("refresh", "call", TRUE, "Doc", TRUE,
                     Undefined, Undefined, Undefined)
    /\ UNCHANGED store

refreshResume(call, outcome) ==
    LET data == fetchDocumentationRefresh(outcome) IN
    /\ call.op = "refresh"
    /\ Settle(call)
    /\ store' = refreshSettled(store, data)
    /\ last' = Event("refresh", "resume", TRUE, "Doc", FALSE,
                     outcome, data, Undefined)

\* The folder object from the cached index, or undefined.
validateFolderLastMatch(state, folder, type) ==
    LET convertedType == IndexKey(type) IN
    IF Falsy(folder) THEN Undefined
    ELSE LET found == SelectSeq(state[convertedType],
                                LAMBDA indexItem : indexItem.category = folder.value)
         IN IF Len(found) = 0 THEN Undefined ELSE Data(found[Len(found)])
validateFolder(state, folder, type) ==
    LET convertedType == IndexKey(type) IN
    IF Falsy(folder) THEN Undefined
    ELSE LET found == SelectSeq(state[convertedType],
                                LAMBDA indexItem : indexItem.category = folder.value)
         IN IF Len(found) = 0 THEN Undefined ELSE Data(found[1])

validatePage(state, folder, name, type) ==
    IF Falsy(folder) \/ Falsy(name) THEN FALSE
    ELSE LET target == validateFolder(state, folder, type) IN
         IF target.typeof = "undefined" THEN FALSE
         ELSE 0 < Len(SelectSeq(target.value.children,
                                LAMBDA child : child = name.value))

FolderInputs == {Undefined, Str(""), Str("Get_Started"), Str("Community")}
NameInputs == {Undefined, Str(""), Str("Introduction"), Str("Setup")}

validateFolderCall(folder, type) ==
    /\ last' = Event("validateFolder", "call", FALSE, type, FALSE, Undefined,
                     [folder |-> folder], validateFolder(store, folder, type))
    /\ UNCHANGED <<store, pending, serverVars, deployVars>>

validatePageCallFetchesOnEmpty(folder, name, type) ==
    /\ last' = Event("validatePage", "call", FALSE, type, FALSE, Undefined,
                     [folder |-> folder, name |-> name],
                     Bool(validatePage(store, folder, name, type)))
    /\ IF store[IndexKey(type)] = <<>>
       THEN Await(Call("getIndex", FALSE, type, <<store.version, store.language, type>>))
       ELSE UNCHANGED <<pending, serverVars, deployVars>>
    /\ UNCHANGED store
validatePageCall(folder, name, type) ==
    /\ last' = Event("validatePage", "call", FALSE, type, FALSE, Undefined,
                     [folder |-> folder, name |-> name],
                     Bool(validatePage(store, folder, name, type)))
    /\ UNCHANGED <<store, pending, serverVars, deployVars>>

\* The store as a tab finds it: the indices persisted in localStorage.
ValidateInit ==
    /\ \E index \in Indices, other \in {<<>>, IndexA}, type \in {"Doc", "Guide"} :
          store = [DefaultState EXCEPT ![IndexKey(type)] = index,
                                       ![IndexKey(IF type = "Doc" THEN "Guide" ELSE "Doc")] = other]
    /\ pending = EmptyBag
    /\ last = NoEvent

ValidateNext ==
    \/ \E folder \in FolderInputs, type \in Types : validateFolderCall(folder, type)
    \/ \E folder \in FolderInputs, name \in NameInputs, type \in Types :
          validatePageCall(folder, name, type)

StoreInit ==
    /\ store = DefaultState
    /\ pending = EmptyBag
    /\ last = NoEvent

StoreNext ==
    \/ \E v \in VersionInputs : setVersion(v)
    \/ \E l \in LanguageInputs : setLanguage(l)
    \/ \E force \in BOOLEAN, type \in Types : getIndexCall(force, type)
    \/ \E call \in BagToSet(pending), o \in OutcomesOf(IndexBodies) :
          getIndexResume(call, o)
    \/ \E force \in BOOLEAN, type \in Types : getRecommendedItemsCall(force, type)
    \/ \E call \in BagToSet(pending), o \in OutcomesOf(ItemsBodies) :
          getRecommendedItemsResume(call, o)
    \/ refreshCall
    \/ \E call \in BagToSet(pending), o \in OutcomesOf(RefreshBodies) :
          refreshResume(call, o)

(***************************************************************************)
(* A caller that awaits each getter before it calls the next one: with     *)
(* nothing else running during the await, a call is its part before the    *)
(* await followed at once by its part after it.                            *)
(***************************************************************************)
getIndexAwaited(state, force, type, outcome) ==
    LET convertedType == IndexKey(type) IN
    IF MustFetch(state[convertedType], force)
    THEN LET data == fetchDocumentationIndex(outcome)
             after == getIndexSettled(state, type, data) IN
         [state |-> after.state, ret |-> after.ret, fetched |-> TRUE, data |-> data]
    ELSE [state |-> state, ret |-> state[convertedType], fetched |-> FALSE, data |-> Undefined]

getRecommendedItemsAwaited(state, force, type, outcome) ==
    LET convertedType == ItemsKey(type) IN
    IF MustFetch(state[convertedType], force)
    THEN LET data == fetchRecommendedItems(outcome)
             after == getRecommendedItemsSettled(state, type, data) IN
         [state |-> after.state, ret |-> after.ret, fetched |-> TRUE, data |-> data]
    ELSE [state |-> state, ret |-> state[convertedType], fetched |-> FALSE, data |-> Undefined]

\* await getIndex(false, type); await getIndex(false, type)
getIndexTwice(type, answer1, answer2) ==
    LET first == getIndexAwaited(store, FALSE, type, answer1)
        second == getIndexAwaited(first.state, FALSE, type, answer2) IN
    /\ store' = second.state
    /\ last' = Event("getIndex", "twice", FALSE, type, FALSE, Undefined,
                     [first |-> first, second |-> second], Arr(second.ret))
    /\ UNCHANGED <<pending, serverVars, deployVars>>

getRecommendedItemsTwice(type, answer1, answer2) ==
    LET first == getRecommendedItemsAwaited(store, FALSE, type, answer1)
        second == getRecommendedItemsAwaited(first.state, FALSE, type, answer2) IN
    /\ store' = second.state
    /\ last' = Event("getRecommendedItems", "twice", FALSE, type, FALSE, Undefined,
                     [first |-> first, second |-> second], Arr(second.ret))
    /\ UNCHANGED <<pending, serverVars, deployVars>>

TwiceNext ==
    \/ \E type \in Types, a1 \in OutcomesOf(IndexBodies), a2 \in OutcomesOf(IndexBodies) :
          getIndexTwice(type, a1, a2)
    \/ \E type \in Types, a1 \in OutcomesOf(ItemsBodies), a2 \in OutcomesOf(ItemsBodies) :
          getRecommendedItemsTwice(type, a1, a2)

(***************************************************************************)
(* The wrappers of utils/fetch.ts, each called once per step on whatever   *)
(* the network answers.                                                    *)
(***************************************************************************)
AnyOutcome(bodies) ==
    LET StatusCodes == {200, 201, 304, 401, 404, 429, 500} IN
    {Rejected} \cup {NotJson(s) : s \in StatusCodes}
        \cup {Response(s, b) : s \in StatusCodes, b \in bodies \cup {Null}}

fetchBaseCall(outcome) ==
    /\ last' = Event("fetchBase", "fetch", FALSE, "", FALSE, outcome,
                     fetchBase(outcome), Undefined)
    /\ UNCHANGED <<store, pending, serverVars, deployVars>>
fetchLoginCall(outcome) ==
    /\ last' = Event("fetchLogin", "fetch", FALSE, "", FALSE, outcome,
                     fetchLogin(outcome), Undefined)
    /\ UNCHANGED <<store, pending, serverVars, deployVars>>
fetchDocumentationPageCall(outcome) ==
    /\ last' = Event("fetchDocumentationPage", "fetch", FALSE, "", FALSE, outcome,
                     fetchDocumentationPage(outcome), Undefined)
    /\ UNCHANGED <<store, pending, serverVars, deployVars>>
fetchDocumentationPagesCall(outcome) ==
    /\ last' = Event("fetchDocumentationPages", "fetch", FALSE, "", FALSE, outcome,
                     fetchDocumentationPages(outcome), Undefined)
    /\ UNCHANGED <<store, pending, serverVars, deployVars>>
fetchDocumentationDefaultCall(outcome) ==
    /\ last' = Event("fetchDocumentationDefault", "fetch", FALSE, "", FALSE, outcome,
                     fetchDocumentationDefault(outcome), Undefined)
    /\ UNCHANGED <<store, pending, serverVars, deployVars>>
fetchDocumentationIndexCall(outcome) ==
    /\ last' = Event("fetchDocumentationIndex", "fetch", FALSE, "", FALSE, outcome,
                     catchReturnFalse(fetchDocumentationIndexTry(outcome)), Undefined)
    /\ UNCHANGED <<store, pending, serverVars, deployVars>>
fetchDocumentationCategoriesCall(outcome) ==
    /\ last' = Event("fetchDocumentationCategories", "fetch", FALSE, "", FALSE, outcome,
                     fetchDocumentationCategories(outcome), Undefined)
    /\ UNCHANGED <<store, pending, serverVars, deployVars>>

FetchNext ==
    LET FileBodies == {[file |-> "<h1>Introduction</h1>"], [files |-> <<"Introduction">>]} IN
    \/ \E o \in AnyOutcome({}) : fetchBaseCall(o)
    \/ \E o \in AnyOutcome({[token |-> "jwt"]}) : fetchLoginCall(o)
    \/ \E o \in AnyOutcome(FileBodies) : fetchDocumentationPageCall(o)
    \/ \E o \in AnyOutcome(FileBodies) : fetchDocumentationPagesCall(o)
    \/ \E o \in AnyOutcome(FileBodies) : fetchDocumentationDefaultCall(o)
    \/ \E o \in AnyOutcome(IndexBodies) : fetchDocumentationIndexCall(o)
    \/ \E o \in AnyOutcome({[categories |-> <<>>], [categories |-> IndexA]}) :
          fetchDocumentationCategoriesCall(o)

(***************************************************************************)
(* The documentation server.  The file accessors (./utils/file) return the *)
(* parsed content or a numeric status: 404 for a missing path, 500 for a   *)
(* read error.                                                             *)
(***************************************************************************)
DiskTypes == {"Doc", "Guide"}
Disk(index, items) == [index |-> index, items |-> items]
EmptyDisk == Disk([t \in DiskTypes |-> Num(404)], [t \in DiskTypes |-> Num(404)])
IndexResults == {Num(404), Num(500), Arr(<<>>), Arr(IndexA)}
ItemsResults == {Num(404), Num(500), Arr(<<>>), Arr(ItemsA)}

getIndex(version, language, type) ==
    IF version \in validVersions /\ language \in validLanguages /\ type \in DiskTypes
    THEN disk.index[type] ELSE Num(404)
getRecommendedItems(language, type) ==
    IF language \in validLanguages /\ type \in DiskTypes
    THEN disk.items[type] ELSE Num(404)

Params(version, language, type) ==
    [version |-> version, language |-> language, type |-> type]
Accessor(name, type) == <<name, type>>
\* What a handler did: the accessors it called, in order, and its response.
Handled(route, params, calls, response) ==
    [route |-> route, params |-> params, calls |-> calls, response |-> response]
NoResponse == Handled("none", Params("v1", "en-US", "Doc"), <<>>, Plain(0))
sendStatus(code) == Plain(code)
json(body) == Response(200, body)

\* if (data.length === 0) data.push(placeholder)
PushNothing(data) == data
PushPlaceholderIfEmpty(data) ==
    IF Len(data) = 0 THEN Append(data, placeholder) ELSE data

\* GET /refresh/:version/:language
refreshRouteReadsAllFirst(params) ==
    LET docIndex == getIndex(params.version, params.language, "Doc")
        guideIndex == getIndex(params.version, params.language, "Guide")
        recommendedDocItems == getRecommendedItems(params.language, "Doc")
        recommendedGuideItems == getRecommendedItems(params.language, "Guide")
        calls == <<Accessor("getIndex", "Doc"), Accessor("getIndex", "Guide"),
                   Accessor("getRecommendedItems", "Doc"),
                   Accessor("getRecommendedItems", "Guide")>>
        reply(response) == Handled("refresh", params, calls, response) IN
    IF docIndex.typeof = "number" THEN reply(sendStatus(docIndex.value))
    ELSE IF guideIndex.typeof = "number" THEN reply(sendStatus(guideIndex.value))
    ELSE IF recommendedDocItems.typeof = "number"
         THEN reply(sendStatus(recommendedDocItems.value))
    ELSE IF recommendedGuideItems.typeof = "number"
         THEN reply(sendStatus(recommendedGuideItems.value))
    ELSE reply(json(RefreshBody(docIndex.value, guideIndex.value,
                      PushPlaceholderIfEmpty(recommendedDocItems.value),
                      PushPlaceholderIfEmpty(recommendedGuideItems.value))))
refreshRoute(params) ==
    LET docIndex == getIndex(params.version, params.language, "Doc")
        calls1 == <<Accessor("getIndex", "Doc")>> IN
    IF docIndex.typeof = "number"
    THEN Handled("refresh", params, calls1, sendStatus(docIndex.value))
    ELSE
    LET guideIndex == getIndex(params.version, params.language, "Guide")
        calls2 == Append(calls1, Accessor("getIndex", "Guide")) IN
    IF guideIndex.typeof = "number"
    THEN Handled("refresh", params, calls2, sendStatus(guideIndex.value))
    ELSE
    LET recommendedDocItems == getRecommendedItems(params.language, "Doc")
        calls3 == Append(calls2, Accessor("getRecommendedItems", "Doc")) IN
    IF recommendedDocItems.typeof = "number"
    THEN Handled("refresh", params, calls3, sendStatus(recommendedDocItems.value))
    ELSE
    LET recommendedGuideItems == getRecommendedItems(params.language, "Guide")
        calls4 == Append(calls3, Accessor("getRecommendedItems", "Guide")) IN
    IF recommendedGuideItems.typeof = "number"
    THEN Handled("refresh", params, calls4, sendStatus(recommendedGuideItems.value))
    ELSE Handled("refresh", params, calls4,
                 json(RefreshBody(docIndex.value, guideIndex.value,
                          PushPlaceholderIfEmpty(recommendedDocItems.value),
                          PushPlaceholderIfEmpty(recommendedGuideItems.value))))

\* GET /getIndex/:version/:language/:type
getIndexRoute(params) ==
    LET index == getIndex(params.version, params.language, params.type)
        calls == <<Accessor("getIndex", params.type)>> IN
    IF index.typeof = "number"
    THEN Handled("getIndex", params, calls, sendStatus(index.value))
    ELSE Handled("getIndex", params, calls, json([index |-> index.value]))

\* GET /getRecommendedItems/:language/:type
getRecommendedItemsRoute(params) ==
    LET data == getRecommendedItems(params.language, params.type)
        calls == <<Accessor("getRecommendedItems", params.type)>> IN
    IF data.typeof = "number"
    THEN Handled("getRecommendedItems", params, calls, sendStatus(data.value))
    ELSE Handled("getRecommendedItems", params, calls,
                 json([recommended_items |-> PushPlaceholderIfEmpty(data.value)]))

refreshRequest(params) ==
    /\ res' = refreshRoute(params)
    /\ UNCHANGED <<disk, storeVars, deployVars>>
getIndexRequest(params) ==
    /\ res' = getIndexRoute(params)
    /\ UNCHANGED <<disk, storeVars, deployVars>>
getRecommendedItemsRequest(params) ==
    /\ res' = getRecommendedItemsRoute(params)
    /\ UNCHANGED <<disk, storeVars, deployVars>>

RequestParams == {Params(v, l, t) : v \in VersionInputs, l \in LanguageInputs, t \in Types}

ServerInit ==
    /\ disk \in {Disk(index, items) : index \in [DiskTypes -> IndexResults],
                                      items \in [DiskTypes -> ItemsResults]}
    /\ res = NoResponse
ServerNext ==
    \/ \E params \in RequestParams : refreshRequest(params)
    \/ \E params \in RequestParams : getIndexRequest(params)
    \/ \E params \in RequestParams : getRecommendedItemsRequest(params)

(***************************************************************************)
(* The routes over the documentation files.  On disk a type has folders,   *)
(* a folder has pages; getFile returns the content of a page, getFiles the *)
(* names of the pages of a folder, getDefaultFile the content of the page  *)
(* Default of a folder, getCategories the folders of a type.               *)
(***************************************************************************)
Tree == {[type |-> "Doc", folder |-> "Get_Started", names |-> <<"Default", "Introduction">>],
         [type |-> "Guide", folder |-> "Get_Started", names |-> <<"Introduction">>]}
FileTrees == {[readable |-> TRUE, folders |-> {}], [readable |-> TRUE, folders |-> Tree],
              [readable |-> FALSE, folders |-> Tree]}
Html(name) ==
    CASE name = "Introduction" -> "<h1>Introduction</h1>"
      [] name = "Default" -> "<h1>Get Started</h1>"
      [] OTHER -> "<h1></h1>"

FoldersOf(version, language, type) ==
    IF version \in validVersions /\ language \in validLanguages
    THEN {f \in disk.files.folders : f.type = type} ELSE {}
PagesOf(folder, version, language, type) ==
    IF folder.typeof # "string" THEN {}
    ELSE {f \in FoldersOf(version, language, type) : f.folder = folder.value}
HasPage(f, name) == \E i \in 1..Len(f.names) : f.names[i] = name

getFile(folder, name, version, language, type) ==
    LET found == PagesOf(folder, version, language, type) IN
    IF found = {} \/ name.typeof # "string" THEN Num(404)
    ELSE IF ~HasPage(CHOOSE f \in found : TRUE, name.value) THEN Num(404)
    ELSE IF ~disk.files.readable THEN Num(500)
    ELSE Str(Html(name.value))
getFiles(folder, version, language, type) ==
    LET found == PagesOf(folder, version, language, type) IN
    IF found = {} THEN Num(404)
    ELSE IF ~disk.files.readable THEN Num(500)
    ELSE Arr((CHOOSE f \in found : TRUE).names)
getDefaultFile(folder, version, language, type) ==
    getFile(folder, Str("Default"), version, language, type)
getCategories(version, language, type) ==
    LET found == FoldersOf(version, language, type) IN
    IF found = {} THEN Num(404)
    ELSE IF ~disk.files.readable THEN Num(500)
    ELSE LET category == (CHOOSE f \in found : TRUE).folder IN
         Arr(<<[category |-> category, icon |-> "", name |-> category]>>)

\* req.query of a file route: folder and name, each a string or absent.
Query(folder, name) == [folder |-> folder, name |-> name]
FileParams(params, searchQuery) ==
    [version |-> params.version, language |-> params.language, type |-> params.type,
     folder |-> searchQuery.folder, name |-> searchQuery.name]

\* GET /getFile/:version/:language/:type
getFileRouteAlwaysJson(params, searchQuery) ==
    LET file == getFile(searchQuery.folder, searchQuery.name,
                        params.version, params.language, params.type) IN
    Handled("getFile", FileParams(params, searchQuery),
            <<Accessor("getFile", params.type)>>, json([file |-> file.value]))
getFileRoute(params, searchQuery) ==
    LET file == getFile(searchQuery.folder, searchQuery.name,
                        params.version, params.language, params.type)
        calls == <<Accessor("getFile", params.type)>> IN
    IF file.typeof = "number"
    THEN Handled("getFile", FileParams(params, searchQuery), calls, sendStatus(file.value))
    ELSE Handled("getFile", FileParams(params, searchQuery), calls,
                 json([file |-> file.value]))

\* GET /getFiles/:version/:language/:type
getFilesRoute(params, searchQuery) ==
    LET files == getFiles(searchQuery.folder, params.version, params.language, params.type)
        calls == <<Accessor("getFiles", params.type)>> IN
    IF files.typeof = "number"
    THEN Handled("getFiles", FileParams(params, searchQuery), calls, sendStatus(files.value))
    ELSE Handled("getFiles", FileParams(params, searchQuery), calls,
                 json([files |-> files.value]))

\* GET /getDefault/:version/:language/:type
getDefaultRoute(params, searchQuery) ==
    LET file == getDefaultFile(searchQuery.folder, params.version, params.language,
                               params.type)
        calls == <<Accessor("getDefaultFile", params.type)>> IN
    IF file.typeof = "number"
    THEN Handled("getDefault", FileParams(params, searchQuery), calls, sendStatus(file.value))
    ELSE Handled("getDefault", FileParams(params, searchQuery), calls,
                 json([file |-> file.value]))

\* GET /getCategories/:version/:language/:type
getCategoriesRoute(params) ==
    LET categories == getCategories(params.version, params.language, params.type)
        calls == <<Accessor("getCategories", params.type)>> IN
    IF categories.typeof = "number"
    THEN Handled("getCategories", params, calls, sendStatus(categories.value))
    ELSE Handled("getCategories", params, calls, json([categories |-> categories.value]))

getFileRequest(params, searchQuery) ==
    /\ res' = getFileRoute(params, searchQuery)
    /\ UNCHANGED <<disk, storeVars, deployVars>>
getFilesRequest(params, searchQuery) ==
    /\ res' = getFilesRoute(params, searchQuery)
    /\ UNCHANGED <<disk, storeVars, deployVars>>
getDefaultRequest(params, searchQuery) ==
    /\ res' = getDefaultRoute(params, searchQuery)
    /\ UNCHANGED <<disk, storeVars, deployVars>>
getCategoriesRequest(params) ==
    /\ res' = getCategoriesRoute(params)
    /\ UNCHANGED <<disk, storeVars, deployVars>>

FileQueries ==
    {Query(f, n) : f \in {Undefined, Str("Get_Started"), Str("Community")},
                   n \in {Undefined, Str("Introduction"), Str("Setup")}}
FolderOnlyQueries == {q \in FileQueries : q.name = Undefined}

RoutesNext ==
    \/ \E params \in RequestParams, q \in FileQueries : getFileRequest(params, q)
    \/ \E params \in RequestParams, q \in FolderOnlyQueries : getFilesRequest(params, q)
    \/ \E params \in RequestParams, q \in FolderOnlyQueries : getDefaultRequest(params, q)
    \/ \E params \in RequestParams : getIndexRequest(params)
    \/ \E params \in RequestParams : getRecommendedItemsRequest(params)
    \/ \E params \in RequestParams : getCategoriesRequest(params)

(***************************************************************************)
(* The frontend asking the server for a page: the URL the wrapper builds,  *)
(* the route of the server that URL matches, the response, and what the    *)
(* wrapper makes of it.                                                    *)
(***************************************************************************)
\* A GET: the path after the base URL, split at "/", and the query string.
Request(path, searchQuery) == [path |-> path, query |-> searchQuery]
\* `${VITE_DOCS_API_BASE}/getFile/${version}/${language}?folder=${folder}&name=${name}`
fetchDocumentationPageUrl(folder, name, version, language) ==
    Request(<<"getFile", version, language>>, Query(Str(folder), Str(name)))

\* `${VITE_DOCS_API_BASE}/getIndex/${version}/${language}`: the wrapper has
\* two parameters, a third argument of a call is dropped.
fetchDocumentationIndexUrl(version, language) ==
    Request(<<"getIndex", version, language>>, Query(Undefined, Undefined))
\* The route the recommended items are served by.
fetchRecommendedItemsUrl(language, type) ==
    Request(<<"getRecommendedItems", language, type>>, Query(Undefined, Undefined))
\* The request a suspended getter of the store is waiting for.
RequestOf(call) ==
    IF call.op = "getIndex" THEN fetchDocumentationIndexUrl(call.args[1], call.args[2])
    ELSE fetchRecommendedItemsUrl(call.args[1], call.args[2])

\* The routes registered with app.get; a path no route matches gets the
\* router's 404.
appGet(request) ==
    LET path == request.path
        params == Params(path[2], path[3], path[4]) IN
    IF Len(path) = 4 /\ path[1] = "getFile" THEN getFileRoute(params, request.query)
    ELSE IF Len(path) = 4 /\ path[1] = "getFiles" THEN getFilesRoute(params, request.query)
    ELSE IF Len(path) = 4 /\ path[1] = "getDefault" THEN getDefaultRoute(params, request.query)
    ELSE IF Len(path) = 4 /\ path[1] = "getIndex" THEN getIndexRoute(params)
    ELSE IF Len(path) = 4 /\ path[1] = "getCategories" THEN getCategoriesRoute(params)
    ELSE Handled("none", request, <<>>, sendStatus(404))

fetchDocumentationPageRequest(folder, name, version, language) ==
    LET request == fetchDocumentationPageUrl(folder, name, version, language)
        answered == appGet(request) IN
    /\ res' = answered
    /\ last' = Event("fetchDocumentationPage", "request", FALSE, "", FALSE,
                     answered.response, fetchDocumentationPage(answered.response),
                     [folder |-> folder, name |-> name,
                      version |-> version, language |-> language])
    /\ UNCHANGED <<disk, store, pending, deployVars>>

PageNext ==
    \/ \E params \in RequestParams, q \in FileQueries : getFileRequest(params, q)
    \/ \E folder \in {"Get_Started", "Community"}, name \in {"Introduction", "Setup"},
          version \in VersionInputs, language \in LanguageInputs :
          fetchDocumentationPageRequest(folder, name, version, language)

(***************************************************************************)
(* The middleware in front of the deployment endpoint.  A header value is  *)
(* kept as the list of its parts between single spaces: "" is <<"">>,      *)
(* "Bearer abc" is <<"Bearer", "abc">>, "Bearer " is <<"Bearer", "">>.     *)
(***************************************************************************)
MaxTokens == 3
Headers ==
    {Undefined} \cup {[typeof |-> "string", tokens |-> t] :
                         t \in SeqsUpTo({"", "Bearer", "secret"}, MaxTokens) \ {<<>>}}

\* !password of a header: undefined and "" are falsy.
NoPassword(password) ==
    password.typeof = "undefined" \/ password.tokens = <<"">>
\* password.split(" ")
split(password) == password.tokens
\* array[i], counted from 0: undefined past the end.
At(array, i) == IF i + 1 <= Len(array) THEN Str(array[i + 1]) ELSE Undefined

deploymentAuthentication(authorization, key) ==
    LET password == authorization
        did(calls, response) ==
            Handled("deploymentAuthentication",
                    [authorization |-> authorization, key |-> key], calls, response) IN
    IF NoPassword(password) \/ At(split(password), 1) # key
    THEN did(<<>>, sendStatus(401))
    ELSE did(<<"next">>, NoResponse.response)

deploymentRequest(authorization) ==
    /\ res' = deploymentAuthentication(authorization, env)
    /\ UNCHANGED <<disk, env, platform, listening, handled, execs, storeVars>>

AuthNext == \E authorization \in Headers : deploymentRequest(authorization)

(***************************************************************************)
(* The deploy listener: the callback given to channel.consume.             *)
(***************************************************************************)
DeployContent == "{\"task\":\"Deploy\",\"sender\":\"Bot\"}"
RestartContent == "{\"task\":\"Restart\",\"sender\":\"Bot\"}"
LowerContent == "{\"task\":\"deploy\",\"sender\":\"Bot\"}"
NoTaskContent == "{\"sender\":\"Bot\"}"
NullContent == "null"
BrokenContent == "{\"task\":\"Deploy\""
Contents == {DeployContent, RestartContent, LowerContent, NoTaskContent,
             NullContent, BrokenContent}
Platforms == {"linux", "win32", "darwin"}

Message(content) == [null |-> FALSE, content |-> content]
NullMessage == [null |-> TRUE, content |-> ""]
Messages == {NullMessage} \cup {Message(c) : c \in Contents}

\* JSON.parse of the contents above: the value, or a SyntaxError.
Object(fields) == [throws |-> FALSE, null |-> FALSE, fields |-> fields]
JSONparse(content) ==
    CASE content = DeployContent -> Object([task |-> "Deploy", sender |-> "Bot"])
      [] content = RestartContent -> Object([task |-> "Restart", sender |-> "Bot"])
      [] content = LowerContent -> Object([task |-> "deploy", sender |-> "Bot"])
      [] content = NoTaskContent -> Object([sender |-> "Bot"])
      [] content = NullContent -> [throws |-> FALSE, null |-> TRUE, fields |-> <<>>]
      [] OTHER -> [throws |-> TRUE, null |-> FALSE, fields |-> <<>>]
\* value.task of a parsed value that is not null.
TaskOf(parsed) ==
    IF "task" \in DOMAIN parsed.fields THEN Str(parsed.fields.task) ELSE Undefined

\* The condition under which the deployment script is run.
ShouldDeployOnLinuxAlways(task, host) == host = "linux"
ShouldDeploy(task, host) == task = Str("Deploy") /\ host = "linux"

\* What one run of the callback does, in order, and whether it throws.
Ran(message, trace, threw) == [message |-> message, trace |-> trace, threw |-> threw]
consumeCallbackRunsBeforeAck(message, host) ==
    IF message.null THEN Ran(message, <<>>, FALSE)
    ELSE LET messageContent == JSONparse(message.content) IN
         IF messageContent.throws THEN Ran(message, <<>>, TRUE)
         ELSE IF messageContent.null THEN Ran(message, <<"ack">>, TRUE)
         ELSE IF ShouldDeploy(TaskOf(messageContent), host)
              THEN Ran(message, <<"log", "exec", "ack">>, FALSE)
         ELSE Ran(message, <<"ack">>, FALSE)
consumeCallback(message, host) ==
    IF message.null THEN Ran(message, <<>>, FALSE)
    ELSE LET messageContent == JSONparse(message.content) IN
         IF messageContent.throws THEN Ran(message, <<>>, TRUE)
         ELSE IF messageContent.null THEN Ran(message, <<"ack">>, TRUE)
         ELSE IF ShouldDeploy(TaskOf(messageContent), host)
              THEN Ran(message, <<"ack", "log", "exec">>, FALSE)
         ELSE Ran(message, <<"ack">>, FALSE)
Count(trace, what) == Cardinality({i \in 1..Len(trace) : trace[i] = what})

\* A delivery.  An exception leaves the callback for amqplib's frame loop: the
\* connection may survive it or be closed, and no later message is delivered.
consume(message) ==
    LET ran == consumeCallback(message, platform) IN
    /\ listening
    /\ Len(handled) < MaxDeliveries
    /\ handled' = Append(handled, ran)
    /\ execs' = execs + Count(ran.trace, "exec")
    /\ listening' \in (IF ran.threw THEN BOOLEAN ELSE {TRUE})
    /\ UNCHANGED <<platform, env, storeVars, serverVars>>

DeployInit ==
    /\ platform \in Platforms
    /\ env = Undefined
    /\ listening = TRUE
    /\ handled = <<>>
    /\ execs = 0
DeployNext == \E message \in Messages : consume(message)

(***************************************************************************)
(* Specifications.                                                         *)
(***************************************************************************)
ServerIdle == disk = EmptyDisk /\ res = NoResponse
DeployIdle ==
    platform = "linux" /\ env = Undefined /\ listening = TRUE /\ handled = <<>> /\ execs = 0

\* The store in one browser tab, against an arbitrary server.
SpecStoreInit == StoreInit /\ ServerIdle /\ DeployIdle
SpecStore ==
    /\ SpecStoreInit
    /\ [][StoreNext]_vars

\* The validators, over every cached index up to MaxIndexLen entries.
SpecValidateInit == ValidateInit /\ ServerIdle /\ DeployIdle
SpecValidate ==
    /\ SpecValidateInit
    /\ [][ValidateNext]_vars

\* The server's routes over every content of the documentation folders.
SpecServerInit == StoreInit /\ ServerInit /\ DeployIdle
SpecServer ==
    /\ SpecServerInit
    /\ [][ServerNext]_vars

\* The deploy listener over every sequence of up to MaxDeliveries messages.
SpecDeployInit == StoreInit /\ ServerIdle /\ DeployInit
SpecDeploy ==
    /\ SpecDeployInit
    /\ [][DeployNext]_vars

\* A getter awaited twice in a row, over the caches as a tab finds them in
\* localStorage and sessionStorage.
SpecTwiceInit ==
    /\ \E di \in ServerIndices, gi \in {<<>>, IndexB},
          rd \in ServerItems, rg \in ServerItems :
          store = StoreState(di, gi, rd, rg, "v1", "en-US")
    /\ pending = EmptyBag
    /\ last = NoEvent
    /\ ServerIdle /\ DeployIdle
SpecTwice ==
    /\ SpecTwiceInit
    /\ [][TwiceNext]_vars

\* Each wrapper of utils/fetch.ts on every outcome of its fetch.
SpecFetchInit == StoreInit /\ ServerIdle /\ DeployIdle
SpecFetch ==
    /\ SpecFetchInit
    /\ [][FetchNext]_vars

\* The six accessor routes over indices, recommended items and page files.
SpecRoutesInit ==
    /\ \E index \in IndexResults, items \in ItemsResults, files \in FileTrees :
          disk = [index |-> [t \in DiskTypes |-> IF t = "Doc" THEN index ELSE Arr(<<>>)],
                  items |-> [t \in DiskTypes |-> IF t = "Guide" THEN items ELSE Arr(ItemsA)],
                  files |-> files]
    /\ res = NoResponse
    /\ StoreInit /\ DeployIdle
SpecRoutes ==
    /\ SpecRoutesInit
    /\ [][RoutesNext]_vars

\* The /getFile route, asked directly and by fetchDocumentationPage.
SpecPageInit ==
    /\ \E files \in FileTrees :
          disk = [index |-> EmptyDisk.index, items |-> EmptyDisk.items, files |-> files]
    /\ res = NoResponse
    /\ StoreInit /\ DeployIdle
SpecPage ==
    /\ SpecPageInit
    /\ [][PageNext]_vars

\* The middleware on every header of up to MaxTokens parts, with the key set,
\* empty or not configured.
SpecAuthInit ==
    /\ env \in {Undefined, Str(""), Str("secret")}
    /\ platform = "linux" /\ listening = TRUE /\ handled = <<>> /\ execs = 0
    /\ StoreInit /\ ServerIdle
SpecAuth ==
    /\ SpecAuthInit
    /\ [][AuthNext]_vars

(***************************************************************************)
(* Claims about the store (checked under SpecStore).                       *)
(***************************************************************************)
Getters == {"getIndex", "getRecommendedItems"}
Resumed(op) == last'.op = op /\ last'.phase = "resume"
Called(op) == last'.op = op /\ last'.phase = "call"
Failed(outcome) == outcome.rejected \/ ~ResponseOk(outcome)
FetchedValue(op, data) ==
    IF op = "getIndex" THEN data.value.index ELSE data.value.recommended_items

\* C1: a refresh() whose fetchDocumentationRefresh resolved to a boolean writes
\* none of the four cached collections.
C1_RefreshFailureKeepsCache ==
    [][(Resumed("refresh") /\ last'.data.typeof = "boolean")
            => \A k \in Slots : store'[k] = store[k]]_vars
C1_Witness ==
    /\ last.op = "refresh" /\ last.phase = "resume"
    /\ last.data.typeof = "boolean"
    /\ \A k \in Slots : store[k] # <<>>

\* C2: the getters return a non-empty cached value without fetching when
\* force is false, fetch when force is true or the slot is empty, and write
\* the value of a successful fetch to the slot.
C2_GetOrFetch ==
    [][\A op \in Getters :
        LET key == KeyOf(op, last'.type) IN
        /\ (Called(op) /\ ~last'.force /\ store[key] # <<>>)
              => /\ ~last'.awaits
                 /\ pending' = pending
                 /\ store' = store
                 /\ last'.ret = Arr(store[key])
        /\ (Called(op) /\ (last'.force \/ store[key] = <<>>))
              => /\ last'.awaits
                 /\ BagCardinality(pending') = BagCardinality(pending) + 1
                 /\ \E call \in BagToSet(pending') :
                       /\ call.op = op /\ call.force = last'.force
                       /\ call.type = last'.type
                       /\ CopiesIn(call, pending') = CopiesIn(call, pending) + 1
        /\ (Resumed(op) /\ last'.data.typeof = "object")
              => /\ store'[key] = FetchedValue(op, last'.data)
                 /\ last'.ret = Arr(FetchedValue(op, last'.data))
                 /\ BagCardinality(pending') = BagCardinality(pending) - 1]_vars
C2_Witness ==
    /\ last.op = "getRecommendedItems" /\ last.phase = "call"
    /\ ~last.force /\ ~last.awaits
    /\ last.ret = Arr(ItemsA)
    /\ \E call \in BagToSet(pending) : call.op = "getIndex" /\ call.force

\* C3 as stated: after a rejected or non-ok fetch the targeted slot (for
\* refresh, every slot) is unchanged and the action returns the cached value.
C3_AnyFailureKeepsCache ==
    [][/\ \A op \in Getters :
            (Resumed(op) /\ Failed(last'.outcome))
               => LET key == KeyOf(op, last'.type) IN
                  store'[key] = store[key] /\ last'.ret = Arr(store[key])
       /\ (Resumed("refresh") /\ Failed(last'.outcome))
               => \A k \in Slots : store'[k] = store[k]]_vars
\* C3 as amended: as above, except that a 404 answer to getIndex's fetch is an
\* empty success: it empties the index slot and the action returns [].
C3_FailureKeepsCacheBut404Index ==
    [][/\ \A op \in Getters :
            (Resumed(op) /\ Failed(last'.outcome))
               => LET key == KeyOf(op, last'.type) IN
                  IF op = "getIndex" /\ ~last'.outcome.rejected
                        /\ last'.outcome.status = 404
                  THEN store'[key] = <<>> /\ last'.ret = Arr(<<>>)
                  ELSE store'[key] = store[key] /\ last'.ret = Arr(store[key])
       /\ (Resumed("refresh") /\ Failed(last'.outcome))
               => \A k \in Slots : store'[k] = store[k]]_vars
C3_Witness ==
    /\ last.op = "getIndex" /\ last.phase = "resume" /\ last.force
    /\ ~last.outcome.rejected /\ last.outcome.status = 500
    /\ last.ret = Arr(IndexB)
    /\ store[IndexKey(last.type)] = IndexB

\* C4 as stated: a non-empty slot changes only in a step of refresh() or of a
\* getter called with force = true.
C4_OnlyForceOrRefreshOverwrites ==
    [][\A k \in Slots :
        (store[k] # <<>> /\ store'[k] # store[k])
            => \/ last'.op = "refresh"
               \/ last'.op \in Getters /\ last'.force]_vars

\* C5: right after a successful refresh() all four slots hold the fields of
\* its one response; the four writes are one step, so no state lies between.
C5_RefreshOverwritesAllFour ==
    (last.op = "refresh" /\ last.phase = "resume" /\ last.data.typeof = "object")
        => \A k \in Slots : store[k] = last.data.value[k]
C5_Witness ==
    /\ last.op = "refresh" /\ last.phase = "resume"
    /\ last.data.typeof = "object"
    /\ store.guideIndex = <<>> /\ store.recommendedGuideItems = ItemsA
    /\ pending # EmptyBag

\* C11: setVersion and setLanguage with a value outside ["v1"] / ["en-US"]
\* change no field, with a listed value they set that field alone, and so
\* version and language stay in their lists after every step from the default.
C11_SettersKeepAllowList ==
    [][/\ store'.version \in {"v1"} /\ store'.language \in {"en-US"}
       /\ last'.op = "setVersion"
             => store' = IF last'.type \in {"v1"}
                         THEN [store EXCEPT !.version = last'.type] ELSE store
       /\ last'.op = "setLanguage"
             => store' = IF last'.type \in {"en-US"}
                         THEN [store EXCEPT !.language = last'.type] ELSE store]_vars
C11_Witness ==
    /\ last.op = "setVersion" /\ last.type = "v2"
    /\ store.version = "v1"
    /\ store.docIndex = IndexA
    /\ pending # EmptyBag

\* The call that the step resumes.
SettledCall == CHOOSE call \in BagToSet(pending) : pending' = pending (-) SetToBag({call})
Names(request, type) == \E i \in 1..Len(request.path) : request.path[i] = type

\* C19: a step of getIndex(force, type) or getRecommendedItems(force, type)
\* changes no field of the store but the slot of its type (guideIndex /
\* recommendedGuideItems for "Guide", docIndex / recommendedDocItems for every
\* other type), and what it writes there was fetched by a request that names
\* that type.
C19_SlotWrittenFromFetchOfItsType ==
    [][\A op \in Getters :
          /\ Called(op) => store' = store
          /\ Resumed(op)
                => /\ \A field \in DOMAIN store \ {KeyOf(op, last'.type)} :
                         store'[field] = store[field]
                   /\ last'.data.typeof = "object"
                         => /\ SettledCall.type = last'.type
                            /\ Names(RequestOf(SettledCall), last'.type)]_vars

(***************************************************************************)
(* Claims about the fetch wrappers (checked under SpecFetch).              *)
(***************************************************************************)
IndexWrappers == {"fetchDocumentationIndex", "fetchDocumentationCategories"}
EmptyOf(wrapper) ==
    IF wrapper = "fetchDocumentationIndex"
    THEN Data([index |-> <<>>]) ELSE Data([categories |-> <<>>])

BodyReadFails(wrapper, outcome) ==
    /\ wrapper # "fetchBase"
    /\ ~outcome.rejected /\ ResponseOk(outcome) /\ ~outcome.json

C12_SecondCallSameAsFirst ==
    last.phase = "twice"
        => /\ last.data.second.ret = last.data.first.ret
           /\ last.data.second.state = last.data.first.state

\* C12, amended: the first call returns the slot as it leaves it; the second
\* call repeats it without a fetch when that slot is non-empty, and fetches
\* again when the first call left the slot empty: it then keeps the empty slot
\* when its wrapper resolves to false and stores and returns the fetched list
\* otherwise.
C12_SecondCallSameUnlessSlotEmpty ==
    last.phase = "twice"
        => LET first == last.data.first
               second == last.data.second
               slot == KeyOf(last.op, last.type)
               list == IF last.op = "getIndex" THEN "index" ELSE "recommended_items" IN
           /\ first.ret = first.state[slot]
           /\ first.state[slot] # <<>>
                 => /\ ~second.fetched
                    /\ second.ret = first.ret
                    /\ second.state = first.state
           /\ first.state[slot] = <<>>
                 => /\ second.fetched
                    /\ second.data.typeof = "boolean"
                          => second.ret = first.ret /\ second.state = first.state
                    /\ second.data.typeof = "object"
                          => /\ second.ret = second.data.value[list]
                             /\ second.state =
                                   [first.state EXCEPT ![slot] = second.data.value[list]]
C12_Witness ==
    /\ last.phase = "twice" /\ last.op = "getIndex" /\ last.type = "Guide"
    /\ last.data.first.fetched
    /\ last.data.first.data = False
    /\ last.data.first.ret = <<>>
    /\ last.data.second.ret = IndexA
    /\ store.guideIndex = IndexA

\* C17: a call of validateFolder or validatePage starts no fetch and leaves
\* every field of the store as it was, for all inputs and cache contents.
C17_ValidatorsArePure ==
    [][last'.op \in {"validateFolder", "validatePage"}
          => store' = store /\ pending' = pending]_vars
C17_Witness ==
    /\ last.op = "validatePage" /\ last.type = "Guide"
    /\ last.data.folder = Str("Get_Started") /\ last.data.name = Str("Introduction")
    /\ last.ret = Bool(FALSE)
    /\ store.guideIndex = <<>> /\ store.docIndex = IndexA
    /\ pending = EmptyBag

(***************************************************************************)
(* Claims about the accessor routes (checked under SpecRoutes).            *)
(***************************************************************************)
AccessorRoutes ==
    {"getFile", "getFiles", "getDefault", "getIndex", "getRecommendedItems", "getCategories"}
RouteKey(route) ==
    CASE route = "getFile" -> "file"
      [] route = "getFiles" -> "files"
      [] route = "getDefault" -> "file"
      [] route = "getIndex" -> "index"
      [] route = "getRecommendedItems" -> "recommended_items"
      [] route = "getCategories" -> "categories"
\* What the accessor of the route returns for the request that was handled.
AccessorResult(h) ==
    LET q == h.params IN
    CASE h.route = "getFile" -> getFile(q.folder, q.name, q.version, q.language, q.type)
      [] h.route = "getFiles" -> getFiles(q.folder, q.version, q.language, q.type)
      [] h.route = "getDefault" -> getDefaultFile(q.folder, q.version, q.language, q.type)
      [] h.route = "getIndex" -> getIndex(q.version, q.language, q.type)
      [] h.route = "getRecommendedItems" -> getRecommendedItems(q.language, q.type)
      [] h.route = "getCategories" -> getCategories(q.version, q.language, q.type)
Wrapped(route, value) == json([k \in {RouteKey(route)} |-> value])

Exists(version, language, type, folder, name) ==
    /\ version \in {"v1"} /\ language \in {"en-US"}
    /\ folder.typeof = "string" /\ name.typeof = "string"
    /\ \E f \in disk.files.folders :
          f.type = type /\ f.folder = folder.value /\ HasPage(f, name.value)

\* C14: for a key with an existing file getFile returns the content and the
\* /getFile route answers { file: content }, for a nonexistent one 404; and
\* fetchDocumentationPage, asking that route for the page, resolves to the
\* HTML string in the first case and to false in the second.
C14_PageReachesFrontend ==
    disk.files.readable
        => /\ res.route = "getFile"
                 => LET q == res.params IN
                    IF Exists(q.version, q.language, q.type, q.folder, q.name)
                    THEN /\ getFile(q.folder, q.name, q.version, q.language, q.type)
                               = Str(Html(q.name.value))
                         /\ res.response = json([file |-> Html(q.name.value)])
                    ELSE /\ getFile(q.folder, q.name, q.version, q.language, q.type)
                               = Num(404)
                         /\ res.response = sendStatus(404)
           /\ last.phase = "request"
                 => LET q == last.ret IN
                    IF \E type \in DiskTypes :
                          Exists(q.version, q.language, type, Str(q.folder), Str(q.name))
                    THEN last.data = Return(Str(Html(q.name)))
                    ELSE last.data = Return(False)

(***************************************************************************)
(* Claims about the validators (checked under SpecValidate).               *)
(***************************************************************************)
\* Positions of the entries of index whose category is the string folder.
EntriesOf(index, folder) ==
    {i \in 1..Len(index) : folder.typeof = "string" /\ index[i].category = folder.value}
HasChild(item, name) ==
    \E j \in 1..Len(item.children) :
        name.typeof = "string" /\ item.children[j] = name.value
Min(S) == CHOOSE i \in S : \A j \in S : i <= j

\* C6 as stated: validatePage is true iff name is among the children of an
\* index entry (of the index the type selects) whose category equals folder.
C6_PageIffChildOfFolder ==
    last.op = "validatePage"
        => LET index == store[IndexKey(last.type)] IN
           last.ret.value <=>
               \E i \in EntriesOf(index, last.data.folder) :
                   HasChild(index[i], last.data.name)
\* C6 as amended: validatePage is true iff folder and name are non-empty
\* strings and name is among the children of the first index entry whose
\* category equals folder.
C6_PageIffChildOfFirstFolder ==
    last.op = "validatePage"
        => LET index == store[IndexKey(last.type)]
               entries == EntriesOf(index, last.data.folder) IN
           last.ret.value <=>
               /\ ~Falsy(last.data.folder) /\ ~Falsy(last.data.name)
               /\ entries # {}
               /\ HasChild(index[Min(entries)], last.data.name)
C6_Witness ==
    /\ last.op = "validatePage" /\ last.type = "Guide"
    /\ last.ret.value
    /\ Len(store.guideIndex) = 2
    /\ store.guideIndex[1].category = store.guideIndex[2].category
    /\ store.guideIndex[1].children # store.guideIndex[2].children
    /\ store.docIndex = IndexA
    /\ last.data.name = Str("Setup")

(***************************************************************************)
(* Claims about the server (checked under SpecServer).                     *)
(***************************************************************************)
IsPlaceholderList(items) ==
    Len(items) = 1 /\ items[1].id = 1 /\ items[1].title = "None_Available"
\* What the endpoint must send for what the accessor returned.
NeverEmpty(sent, returned) ==
    /\ sent # <<>>
    /\ returned = <<>> => IsPlaceholderList(sent)
    /\ returned # <<>> => sent = returned

\* C7: a JSON response of the recommended-items endpoints carries the
\* accessor's list unchanged when it is non-empty and the one-element
\* placeholder list when it is empty, never an empty list.
C7_RecommendedNeverEmpty ==
    /\ (res.route = "getRecommendedItems" /\ res.response.json)
          => NeverEmpty(res.response.body.recommended_items,
                        getRecommendedItems(res.params.language, res.params.type).value)
    /\ (res.route = "refresh" /\ res.response.json)
          => /\ NeverEmpty(res.response.body.recommendedDocItems,
                           getRecommendedItems(res.params.language, "Doc").value)
             /\ NeverEmpty(res.response.body.recommendedGuideItems,
                           getRecommendedItems(res.params.language, "Guide").value)
C7_Witness ==
    /\ res.route = "refresh" /\ res.response.json
    /\ disk.items["Doc"] = Arr(<<>>)
    /\ res.response.body.recommendedDocItems = <<placeholder>>
    /\ res.response.body.recommendedGuideItems = ItemsA

RefreshOrder ==
    <<Accessor("getIndex", "Doc"), Accessor("getIndex", "Guide"),
      Accessor("getRecommendedItems", "Doc"), Accessor("getRecommendedItems", "Guide")>>
RefreshResult(i, params) ==
    IF RefreshOrder[i][1] = "getIndex"
    THEN getIndex(params.version, params.language, RefreshOrder[i][2])
    ELSE getRecommendedItems(params.language, RefreshOrder[i][2])

\* C10: /refresh calls the four accessors in order up to the first numeric
\* result and answers with that status and no JSON body; it sends the JSON
\* body with all four fields exactly when none of the four is numeric.
C10_RefreshShortCircuits ==
    res.route = "refresh"
        => LET numeric == {i \in 1..4 : RefreshResult(i, res.params).typeof = "number"} IN
           IF numeric # {}
           THEN /\ res.calls = SubSeq(RefreshOrder, 1, Min(numeric))
                /\ res.response = sendStatus(RefreshResult(Min(numeric), res.params).value)
                /\ ~res.response.json
           ELSE /\ res.calls = RefreshOrder
                /\ res.response.json /\ res.response.status = 200
                /\ DOMAIN res.response.body =
                      {"docIndex", "guideIndex", "recommendedDocItems",
                       "recommendedGuideItems"}
                /\ res.response.body.docIndex = RefreshResult(1, res.params).value
                /\ res.response.body.guideIndex = RefreshResult(2, res.params).value
C10_Witness ==
    /\ res.route = "refresh"
    /\ res.calls = SubSeq(RefreshOrder, 1, 3)
    /\ res.response = sendStatus(500)
    /\ disk.items["Guide"] = Num(404)

(***************************************************************************)
(* Claims about the deploy listener (checked under SpecDeploy).            *)
(***************************************************************************)
Acks(ran) == Count(ran.trace, "ack")
Execs(ran) == Count(ran.trace, "exec")
\* The message is JSON and its task is not "Deploy" (or it has none).
TaskIsNotDeploy(message) ==
    /\ ~message.null
    /\ ~JSONparse(message.content).throws
    /\ \/ JSONparse(message.content).null
       \/ TaskOf(JSONparse(message.content)) # Str("Deploy")
RECURSIVE SumExecs(_)
SumExecs(runs) ==
    IF runs = <<>> THEN 0 ELSE Execs(Head(runs)) + SumExecs(Tail(runs))

\* C8: a message whose task is not "Deploy" is acknowledged once and runs no
\* deployment script, on every platform and wherever it comes in the sequence.
C8_NonDeployAckedNotRun ==
    /\ \A i \in DOMAIN handled :
          TaskIsNotDeploy(handled[i].message)
              => Acks(handled[i]) = 1 /\ Execs(handled[i]) = 0
    /\ execs = SumExecs(handled)
C8_Witness ==
    /\ platform = "linux"
    /\ Len(handled) = 3
    /\ handled[1].message = Message(DeployContent) /\ Execs(handled[1]) = 1
    /\ handled[2].message = Message(RestartContent) /\ Acks(handled[2]) = 1
    /\ handled[3].message = Message(NoTaskContent) /\ Acks(handled[3]) = 1
    /\ execs = 1

\* C9 as stated: every non-null message delivered to the callback has been
\* acknowledged exactly once when the callback is over, whatever its body.
C9_EveryMessageAckedOnce ==
    \A i \in DOMAIN handled :
        ~handled[i].message.null => Acks(handled[i]) = 1

\* The message is JSON and its task is "Deploy".
TaskIsDeploy(message) ==
    /\ ~message.null
    /\ ~JSONparse(message.content).throws
    /\ ~JSONparse(message.content).null
    /\ TaskOf(JSONparse(message.content)) = Str("Deploy")

\* C18: on linux every delivered "Deploy" message runs the deployment script
\* exactly once, after its acknowledgement and as the last thing of its own
\* handling, so before the next message is handled; on another platform no
\* message runs it.
C18_DeployRunsOnceAfterAck ==
    /\ \A i \in DOMAIN handled :
          TaskIsDeploy(handled[i].message) /\ platform = "linux"
              => LET trace == handled[i].trace IN
                 /\ Execs(handled[i]) = 1
                 /\ trace[Len(trace)] = "exec"
                 /\ \E a \in 1..(Len(trace) - 1) : trace[a] = "ack"
    /\ platform # "linux"
          => execs = 0 /\ \A i \in DOMAIN handled : Execs(handled[i]) = 0
    /\ execs = SumExecs(handled)
C18_Witness ==
    /\ platform = "linux"
    /\ Len(handled) = 2
    /\ handled[1].message = Message(DeployContent)
    /\ handled[2].message = Message(DeployContent)
    /\ handled[2].trace = <<"ack", "log", "exec">>
    /\ execs = 2

(***************************************************************************)
(* Claims about the deployment middleware (checked under SpecAuth).        *)
(***************************************************************************)
CalledNext(h) == h.calls = <<"next">>
Sent401(h) == h.response = sendStatus(401)
\* The header is present and has a second part after a space.
CarriesKeyToken(authorization) ==
    authorization.typeof = "string" /\ Len(authorization.tokens) >= 2

\* C20: for every request deploymentAuthentication either calls next(), when
\* the Authorization header is present and its second space-separated token
\* equals the configured DEPLOYMENT_KEY, or answers 401 without calling
\* next(); a request that carries no key token never reaches next(), also
\* when DEPLOYMENT_KEY is not configured.
C20_NextOnlyWithTheKey ==
    res.route = "deploymentAuthentication"
        => LET authorization == res.params.authorization IN
           /\ CalledNext(res) # Sent401(res)
           /\ CalledNext(res)
                 <=> /\ CarriesKeyToken(authorization)
                     /\ env.typeof = "string"
                     /\ authorization.tokens[2] = env.value
           /\ ~CarriesKeyToken(authorization) => ~CalledNext(res)

====
